---- MODULE Spec2Model ----
(***************************************************************************)
(* Model of the cdk-demo repository: the two entry-point variants          *)
(* (bin/cdk-demo.ts and its hard-coded twin), the ApiStack constructor,    *)
(* the synthesized template and the front door it declares, the compute    *)
(* handler, the orchestrator commands and the documented promotion         *)
(* pipeline.                                                               *)
(***************************************************************************)
EXTENDS Integers, Sequences, FiniteSets, TLC

(* ----------------------------------------------------------------------- *)
(* Bounds                                                                  *)
(* ----------------------------------------------------------------------- *)
MaxRequests == 2

MaxTicks == 3

MaxInvocations == 2

MaxRev == 2
MaxConcurrent == 2

(* ----------------------------------------------------------------------- *)
(* Values                                                                  *)
(* ----------------------------------------------------------------------- *)
Undefined == "undefined"

\* A local constant not yet assigned (a construct is named by its path).
NoRef == <<>>

NoIntegration == [type |-> "none", handler |-> NoRef]

NoTemplate == [synthesized |-> FALSE]

NoError == [kind |-> "none", name |-> Undefined]

\* "There is already a Construct with name ..."
NameCollision == [kind |-> "NameCollision", name |-> "construct"]

NoSynth == [synthesized |-> FALSE]

EnvNames == {"dev", "uat", "stage", "prod"}

\* The environment configuration table of the multi-environment design notes.
EnvConfigs ==
  [dev   |-> [account |-> "111111111111", region |-> "us-east-1"],
   uat   |-> [account |-> "222222222222", region |-> "us-east-2"],
   stage |-> [account |-> "333333333333", region |-> "us-west-2"],
   prod  |-> [account |-> "444444444444", region |-> "us-west-2"]]

\* Values of the context key "env" the command line can carry.
Selectors == EnvNames \cup {"qa", Undefined}

\* Values of process.env.CDK_DEFAULT_ACCOUNT and process.env.AWS_REGION.
AccountValues == {Undefined, "111111111111", "339713054130"}
RegionValues == {Undefined, "us-east-1", "ap-south-1"}

\* The two entry-point files.
Variants == {"cdk-demo.ts", "part_000"}

\* Working directories of the process: the repository root, or elsewhere.
Cwds == {"/repo", "/elsewhere"}

HttpMethods == {"GET", "POST", "PUT", "DELETE", "PATCH", "HEAD", "OPTIONS"}

VARIABLES
  variant,        \* which entry-point file the process runs
  envSelector,    \* the context value env=<name> of the invocation
  processEnv,     \* process.env: CDK_DEFAULT_ACCOUNT, AWS_REGION
  cwd,            \* process.cwd()
  pc,             \* position of the process in the entry point / constructor
  appCreated,     \* new cdk.App() has run
  stdout,         \* lines written by console.log
  stages,         \* Stage constructs under the app
  stacks,         \* Stack constructs under the app
  resources,      \* constructs declared under the stack, in declaration order
  helloFn,        \* the local const helloFn
  api,            \* the local const api
  helloIntegration, \* the local const helloIntegration
  error,          \* the exception that ended the process, if any
  template,       \* the synthesized template
  prevSynth,      \* the template of an earlier synthesis
  requests,       \* the requests the front door has answered, in order
  fnInvocations,  \* number of times the front door invoked the function
  clock,          \* the platform's clock: day since the epoch, ms of the day
  ticks,          \* number of clock advances so far
  invocations,    \* the handler's invocations: event, time, response
  contexts,       \* the platform's execution contexts: the handler's locals
  running,        \* per concurrent invocation: its position and its response
  localRev,       \* revision of the local declarations (the checked-out commit)
  deployed,       \* per environment: the revision and resources deployed
  cloudAssembly,  \* revision of the last generated template (cdk.out), 0: none
  diffOutput,     \* what the last cdk diff printed
  lastCommand,    \* the last orchestrator command and how it ended
  develop,        \* steps done by the current run of the develop pipeline
  release         \* the current run of the promotion pipeline

appVars == <<variant, envSelector, processEnv, cwd, pc, appCreated, stdout,
             stages, stacks, resources, helloFn, api, helloIntegration,
             error, template, prevSynth, requests, fnInvocations>>

handlerVars == <<clock, ticks, invocations, contexts, running>>

cliVars == <<localRev, deployed, cloudAssembly, diffOutput, lastCommand>>

pipelineVars == <<develop, release>>

vars == <<appVars, handlerVars, cliVars, pipelineVars>>

(* ----------------------------------------------------------------------- *)
(* Helpers of the construct tree                                           *)
(* ----------------------------------------------------------------------- *)
\* path.join(process.cwd(), "src/handlers/hello-world/index.ts")
join(dir, rel) == <<dir, rel>>

HandlerEntry == "src/handlers/hello-world/index.ts"

\* The handler source exists at that relative path of the repository root only.
EntryExists(path) == path = join("/repo", HandlerEntry)

Ids(seq) == {seq[i].id : i \in 1..Len(seq)}

OfType(seq, t) == SelectSeq(seq, LAMBDA r : r.type = t)

\* A construct id may be used once per scope; a second use throws.
CanDeclare(seq, ids) == \A i \in ids : i \notin Ids(seq)

\* The env property the entry point passes to ApiStack.
StackEnv(v, penv) ==
  IF v = "cdk-demo.ts"
    THEN [account |-> penv.CDK_DEFAULT_ACCOUNT, region |-> penv.AWS_REGION]
    ELSE [account |-> "339713054130", region |-> "ap-south-1"]

\* Mutant: the function is declared with the platform's default memory.
HelloFunctionDeclDefaultMemory(entry) ==
  [id |-> <<"HelloFunction">>, type |-> "Function", refs |-> {},
   props |-> [entry |-> entry, runtime |-> "nodejs20.x", memorySize |-> 128]]

\* Mutant: the function is given the API's URL, which is declared after it.
HelloFunctionDeclWithApiUrl(entry) ==
  [id |-> <<"HelloFunction">>, type |-> "Function", refs |-> {<<"ServiceApi">>},
   props |-> [entry |-> entry, runtime |-> "nodejs20.x", memorySize |-> 256]]

\* new NodejsFunction(this, 'HelloFunction', {entry, runtime, memorySize})
HelloFunctionDecl(entry) ==
  [id |-> <<"HelloFunction">>, type |-> "Function", refs |-> {},
   props |-> [entry |-> entry, runtime |-> "nodejs20.x", memorySize |-> 256]]

\* new RestApi(this, 'ServiceApi', {restApiName, defaultCorsPreflightOptions})
ServiceApiDecl ==
  [id |-> <<"ServiceApi">>, type |-> "RestApi", refs |-> {},
   props |-> [restApiName |-> "Lambda Api",
              allowOrigins |-> "ALL_ORIGINS", allowMethods |-> "ALL_METHODS"]]

\* defaultCorsPreflightOptions makes the API's root resource answer the
\* preflight itself: an OPTIONS method with a mock integration.
CorsPreflightDecl ==
  [id |-> <<"ServiceApi", "Default", "OPTIONS">>, type |-> "Method",
   refs |-> {<<"ServiceApi">>},
   props |-> [httpMethod |-> "OPTIONS", resource |-> "/",
              integration |-> [type |-> "MOCK", handler |-> NoRef]]]

\* new LambdaIntegration(helloFn)
LambdaIntegration(fn) == [type |-> "AWS_PROXY", handler |-> fn]

\* api.root.addMethod(httpMethod, integration)
MethodDecl(apiId, httpMethod, integration) ==
  [id |-> apiId \o <<"Default", httpMethod>>, type |-> "Method",
   refs |-> {apiId} \cup (IF integration.handler = NoRef THEN {}
                          ELSE {integration.handler}),
   props |-> [httpMethod |-> httpMethod, resource |-> "/",
              integration |-> integration]]

\* new CfnOutput(this, 'ApiUrl', {value: api.url, description})
ApiUrlDecl(apiId) ==
  [id |-> <<"ApiUrl">>, type |-> "Output", refs |-> {apiId},
   props |-> [value |-> [urlOf |-> apiId],
              description |-> "Base URL of the REST API"]]

(* ----------------------------------------------------------------------- *)
(* Initial state                                                           *)
(* ----------------------------------------------------------------------- *)
FreshProcess ==
  /\ pc = "start"
  /\ appCreated = FALSE
  /\ stdout = <<>>
  /\ stages = <<>>
  /\ stacks = <<>>
  /\ resources = <<>>
  /\ helloFn = NoRef
  /\ api = NoRef
  /\ helloIntegration = NoIntegration
  /\ error = NoError
  /\ template = NoTemplate
  /\ requests = <<>>
  /\ fnInvocations = 0

Inputs ==
  /\ variant \in Variants
  /\ envSelector \in Selectors
  /\ processEnv \in [CDK_DEFAULT_ACCOUNT : AccountValues, AWS_REGION : RegionValues]
  /\ cwd \in Cwds

\* 2025-11-11T23:59:59.000Z, one second before the day of the documented example.
StartClock == [day |-> 20403, ms |-> 86399000]

NoTime == [day |-> 0, ms |-> 0]

\* The invocations the platform can have in flight at once.
InvocationIds == 1..MaxConcurrent

\* An execution context before any invocation ran in it.
FreshContext == [event |-> Undefined, now |-> NoTime]

\* An invocation the platform has not started.
NotStarted ==
  [pc |-> "idle", event |-> Undefined, readAt |-> NoTime, touched |-> {},
   response |-> [statusCode |-> 0]]

NoInvocations ==
  /\ clock = StartClock
  /\ ticks = 0
  /\ invocations = <<>>
  /\ contexts = [c \in InvocationIds |-> FreshContext]
  /\ running = [i \in InvocationIds |-> NotStarted]

NotDeployed == [rev |-> 0, resources |-> {}]

NoCommand == [cmd |-> "none", env |-> Undefined, applied |-> FALSE,
              exitCode |-> 0, seq |-> 0]

NoRun == [trigger |-> "none", steps |-> <<>>, approved |-> {}]

NothingDeployed ==
  /\ localRev = 1
  /\ deployed = [e \in EnvNames |-> NotDeployed]
  /\ cloudAssembly = 0
  /\ diffOutput = "none"
  /\ lastCommand = NoCommand
  /\ develop = <<>>
  /\ release = NoRun

Init ==
  /\ Inputs
  /\ FreshProcess
  /\ prevSynth = NoSynth
  /\ NoInvocations
  /\ NothingDeployed

(* ----------------------------------------------------------------------- *)
(* Entry point                                                             *)
(* ----------------------------------------------------------------------- *)
\* const app = new cdk.App();
NewApp ==
  /\ pc = "start"
  /\ appCreated' = TRUE
  /\ pc' = IF variant = "cdk-demo.ts" THEN "log" ELSE "stack"
  /\ UNCHANGED <<variant, envSelector, processEnv, cwd, stdout, stages, stacks,
                 resources, helloFn, api, helloIntegration, error, template,
                 prevSynth, requests, fnInvocations>>
  /\ UNCHANGED <<handlerVars, cliVars, pipelineVars>>

\* console.log(..., { account: ..., region: ... })   (env-variable variant only)
ConsoleLog ==
  /\ pc = "log"
  /\ stdout' = Append(stdout, StackEnv(variant, processEnv))
  /\ pc' = "stack"
  /\ UNCHANGED <<variant, envSelector, processEnv, cwd, appCreated, stages,
                 stacks, resources, helloFn, api, helloIntegration, error,
                 template, prevSynth, requests, fnInvocations>>
  /\ UNCHANGED <<handlerVars, cliVars, pipelineVars>>

(* ----------------------------------------------------------------------- *)
(* ApiStack constructor                                                    *)
(* ----------------------------------------------------------------------- *)
\* new ApiStack(app, 'ApiStack', { env }) ... super(scope, id, props);
StackSuper ==
  /\ pc = "stack"
  /\ stacks' = Append(stacks, [id |-> "ApiStack", scope |-> "App",
                               env |-> StackEnv(variant, processEnv)])
  /\ pc' = "helloFn"
  /\ UNCHANGED <<variant, envSelector, processEnv, cwd, appCreated, stdout,
                 stages, resources, helloFn, api, helloIntegration, error,
                 template, prevSynth, requests, fnInvocations>>
  /\ UNCHANGED <<handlerVars, cliVars, pipelineVars>>

\* const helloFn = new NodejsFunction(this, 'HelloFunction', {...});
\* The construct throws when the entry file does not exist.
NewHelloFunction ==
  /\ pc = "helloFn"
  /\ LET entry == join(cwd, HandlerEntry) IN
       IF ~EntryExists(entry)
         THEN /\ error' = [kind |-> "EntryNotFound", name |-> HandlerEntry]
              /\ pc' = "failed"
              /\ UNCHANGED <<resources, helloFn>>
         ELSE IF ~CanDeclare(resources, {HelloFunctionDecl(entry).id})
           THEN /\ error' = NameCollision
                /\ pc' = "failed"
                /\ UNCHANGED <<resources, helloFn>>
           ELSE /\ resources' = Append(resources, HelloFunctionDecl(entry))
                /\ helloFn' = HelloFunctionDecl(entry).id
                /\ pc' = "api"
                /\ UNCHANGED error
  /\ UNCHANGED <<variant, envSelector, processEnv, cwd, appCreated, stdout,
                 stages, stacks, api, helloIntegration, template, prevSynth,
                 requests, fnInvocations>>
  /\ UNCHANGED <<handlerVars, cliVars, pipelineVars>>

\* const api = new RestApi(this, 'ServiceApi', {...});
NewRestApi ==
  /\ pc = "api"
  /\ IF ~CanDeclare(resources, {ServiceApiDecl.id, CorsPreflightDecl.id})
       THEN /\ error' = NameCollision
            /\ pc' = "failed"
            /\ UNCHANGED <<resources, api>>
       ELSE /\ resources' = resources \o <<ServiceApiDecl, CorsPreflightDecl>>
            /\ api' = ServiceApiDecl.id
            /\ pc' = "integration"
            /\ UNCHANGED error
  /\ UNCHANGED <<variant, envSelector, processEnv, cwd, appCreated, stdout,
                 stages, stacks, helloFn, helloIntegration, template, prevSynth,
                 requests, fnInvocations>>
  /\ UNCHANGED <<handlerVars, cliVars, pipelineVars>>

\* const helloIntegration = new LambdaIntegration(helloFn);
NewLambdaIntegration ==
  /\ pc = "integration"
  /\ helloIntegration' = LambdaIntegration(helloFn)
  /\ pc' = "method"
  /\ UNCHANGED <<variant, envSelector, processEnv, cwd, appCreated, stdout,
                 stages, stacks, resources, helloFn, api, error, template,
                 prevSynth, requests, fnInvocations>>
  /\ UNCHANGED <<handlerVars, cliVars, pipelineVars>>

\* Mutant: the function is bound to every method of the root resource.
RootMethodAny == "ANY"

\* The method the constructor binds on the root resource.
RootMethod == "GET"

\* api.root.addMethod('GET', helloIntegration);
AddMethod ==
  /\ pc = "method"
  /\ LET decl == MethodDecl(api, RootMethod, helloIntegration) IN
       IF ~CanDeclare(resources, {decl.id})
         THEN /\ error' = NameCollision
              /\ pc' = "failed"
              /\ UNCHANGED resources
         ELSE /\ resources' = Append(resources, decl)
              /\ pc' = "output"
              /\ UNCHANGED error
  /\ UNCHANGED <<variant, envSelector, processEnv, cwd, appCreated, stdout,
                 stages, stacks, helloFn, api, helloIntegration, template,
                 prevSynth, requests, fnInvocations>>
  /\ UNCHANGED <<handlerVars, cliVars, pipelineVars>>

\* new CfnOutput(this, 'ApiUrl', { value: api.url, description });
NewCfnOutput ==
  /\ pc = "output"
  /\ IF ~CanDeclare(resources, {ApiUrlDecl(api).id})
       THEN /\ error' = NameCollision
            /\ pc' = "failed"
            /\ UNCHANGED resources
       ELSE /\ resources' = Append(resources, ApiUrlDecl(api))
            /\ pc' = "done"
            /\ UNCHANGED error
  /\ UNCHANGED <<variant, envSelector, processEnv, cwd, appCreated, stdout,
                 stages, stacks, helloFn, api, helloIntegration, template,
                 prevSynth, requests, fnInvocations>>
  /\ UNCHANGED <<handlerVars, cliVars, pipelineVars>>

(* ----------------------------------------------------------------------- *)
(* Synthesis                                                               *)
(* ----------------------------------------------------------------------- *)
\* An unset account or region leaves the stack environment-agnostic: the
\* template then refers to the deploy-time pseudo parameters.
ResolveEnv(env) ==
  [account |-> IF env.account = Undefined THEN "AWS::AccountId" ELSE env.account,
   region  |-> IF env.region = Undefined THEN "AWS::Region" ELSE env.region]

\* api.url: https://<api id>.execute-api.<region>.amazonaws.com/prod/
UrlOf(apiId, region) ==
  <<"https://">> \o apiId \o <<".execute-api.", region, ".amazonaws.com/prod/">>

\* What a declared construct becomes in the template.
Resolve(r, env) ==
  CASE r.type = "Function" ->
         [id |-> r.id, type |-> r.type, refs |-> r.refs,
          props |-> [code |-> HandlerEntry, runtime |-> r.props.runtime,
                     memorySize |-> r.props.memorySize]]
    [] r.type = "Output" ->
         [id |-> r.id, type |-> r.type, refs |-> r.refs,
          props |-> [value |-> UrlOf(r.props.value.urlOf, env.region),
                     description |-> r.props.description]]
    [] OTHER -> r

\* Mutant: the template carries the context of the run that produced it.
SynthesizeWithContext(stack, res) ==
  [synthesized |-> TRUE,
   stackName |-> <<stack.id, envSelector>>,
   env |-> ResolveEnv(stack.env),
   resources |-> [i \in 1..Len(res) |-> Resolve(res[i], ResolveEnv(stack.env))]]

\* The template of a stack: its name, its target and its resources in order.
Synthesize(stack, res) ==
  [synthesized |-> TRUE,
   stackName |-> stack.id,
   env |-> ResolveEnv(stack.env),
   resources |-> [i \in 1..Len(res) |-> Resolve(res[i], ResolveEnv(stack.env))]]

\* npx cdk synth: generate the CloudFormation template of the constructed app.
CdkSynth ==
  /\ pc = "done"
  /\ template' = Synthesize(stacks[1], resources)
  /\ pc' = "synthesized"
  /\ UNCHANGED <<variant, envSelector, processEnv, cwd, appCreated, stdout,
                 stages, stacks, resources, helloFn, api, helloIntegration,
                 error, prevSynth, requests, fnInvocations>>
  /\ UNCHANGED <<handlerVars, cliVars, pipelineVars>>

(* ----------------------------------------------------------------------- *)
(* Front door                                                              *)
(* ----------------------------------------------------------------------- *)
\* The methods the template binds on a resource path.
MethodsOn(t, path) ==
  {t.resources[i] : i \in {j \in 1..Len(t.resources) :
      /\ t.resources[j].type = "Method"
      /\ t.resources[j].props.resource = path}}

\* The integration that answers method m on the root resource: the method's
\* own binding, else the ANY binding, else none.
Route(t, m) ==
  LET exact == {r \in MethodsOn(t, "/") : r.props.httpMethod = m}
      any   == {r \in MethodsOn(t, "/") : r.props.httpMethod = "ANY"}
  IN  IF exact # {} THEN (CHOOSE r \in exact : TRUE).props.integration
      ELSE IF any # {} THEN (CHOOSE r \in any : TRUE).props.integration
      ELSE NoIntegration

\* What the front door does with a request for method m on the root resource.
Outcome(t, m) ==
  LET i == Route(t, m) IN
    CASE i.type = "AWS_PROXY" -> "invoked"
      [] i.type = "MOCK" -> "mock"
      [] OTHER -> "rejected"

\* A client sends a request for the root resource.
Request(m) ==
  /\ pc = "synthesized"
  /\ Len(requests) < MaxRequests
  /\ requests' = Append(requests, [method |-> m, outcome |-> Outcome(template, m)])
  /\ fnInvocations' = IF Outcome(template, m) = "invoked"
                        THEN fnInvocations + 1 ELSE fnInvocations
  /\ UNCHANGED <<variant, envSelector, processEnv, cwd, pc, appCreated, stdout,
                 stages, stacks, resources, helloFn, api, helloIntegration,
                 error, template, prevSynth>>
  /\ UNCHANGED <<handlerVars, cliVars, pipelineVars>>

(* ----------------------------------------------------------------------- *)
(* A further run of the command line                                       *)
(* ----------------------------------------------------------------------- *)
ThisSynth ==
  [synthesized |-> TRUE, variant |-> variant, id |-> stacks[1].id,
   env |-> stacks[1].env, declared |-> resources, template |-> template,
   scope |-> stacks[1].scope, stdout |-> stdout]

\* The process has ended; the command line is run again, with any inputs.
\* The outcome of this run may be kept for comparison.
Restart ==
  /\ pc \in {"synthesized", "failed"}
  /\ prevSynth' \in {prevSynth} \cup (IF pc = "synthesized" THEN {ThisSynth} ELSE {})
  /\ variant' \in Variants
  /\ envSelector' \in Selectors
  /\ processEnv' \in [CDK_DEFAULT_ACCOUNT : AccountValues, AWS_REGION : RegionValues]
  /\ cwd' \in Cwds
  /\ pc' = "start"
  /\ appCreated' = FALSE
  /\ stdout' = <<>>
  /\ stages' = <<>>
  /\ stacks' = <<>>
  /\ resources' = <<>>
  /\ helloFn' = NoRef
  /\ api' = NoRef
  /\ helloIntegration' = NoIntegration
  /\ error' = NoError
  /\ template' = NoTemplate
  /\ requests' = <<>>
  /\ fnInvocations' = 0
  /\ UNCHANGED <<handlerVars, cliVars, pipelineVars>>

(* ----------------------------------------------------------------------- *)
(* Compute handler (src/handlers/hello-world/index.ts)                     *)
(* ----------------------------------------------------------------------- *)
\* Events the platform can pass to the handler.
Events == {"empty", "malformed", "GET /"}

\* Advances of the clock between two observations, in ms.
ClockSteps == {1, 1000}

MsPerDay == 86400000

DigitChars == <<"0", "1", "2", "3", "4", "5", "6", "7", "8", "9">>

Pow10(k) == IF k = 0 THEN 1 ELSE IF k = 1 THEN 10 ELSE IF k = 2 THEN 100 ELSE 1000

\* n in decimal, zero-padded to width characters.
Pad(n, width) == [i \in 1..width |-> DigitChars[((n \div Pow10(width - i)) % 10) + 1]]

\* The civil date of a day number (days since 1970-01-01).
CivilFromDays(days) ==
  LET z   == days + 719468
      era == z \div 146097
      doe == z - era * 146097
      yoe == (doe - doe \div 1460 + doe \div 36524 - doe \div 146096) \div 365
      doy == doe - (365 * yoe + yoe \div 4 - yoe \div 100)
      mp  == (5 * doy + 2) \div 153
      d   == doy - (153 * mp + 2) \div 5 + 1
      m   == IF mp < 10 THEN mp + 3 ELSE mp - 9
      y   == yoe + era * 400 + (IF m <= 2 THEN 1 ELSE 0)
  IN  [year |-> y, month |-> m, day |-> d]

\* Mutant: the timestamp is cut to whole seconds.
ToISOStringSeconds(t) ==
  LET c == CivilFromDays(t.day)
      s == t.ms \div 1000
  IN  Pad(c.year, 4) \o <<"-">> \o Pad(c.month, 2) \o <<"-">> \o Pad(c.day, 2)
        \o <<"T">> \o Pad(s \div 3600, 2) \o <<":">> \o Pad((s \div 60) % 60, 2)
        \o <<":">> \o Pad(s % 60, 2) \o <<".">> \o Pad(0, 3) \o <<"Z">>

\* Date.prototype.toISOString: YYYY-MM-DDTHH:mm:ss.sssZ, as characters.
ToISOString(t) ==
  LET c == CivilFromDays(t.day)
      s == t.ms \div 1000
  IN  Pad(c.year, 4) \o <<"-">> \o Pad(c.month, 2) \o <<"-">> \o Pad(c.day, 2)
        \o <<"T">> \o Pad(s \div 3600, 2) \o <<":">> \o Pad((s \div 60) % 60, 2)
        \o <<":">> \o Pad(s % 60, 2) \o <<".">> \o Pad(t.ms % 1000, 3) \o <<"Z">>

\* JSON.stringify({message, timestamp}), as text pieces.
JSONStringify(obj) ==
  <<"{\"message\":\"", obj.message, "\",\"timestamp\":\"">> \o obj.timestamp
    \o <<"\"}">>

\* Mutant: the handler answers a malformed event with a client error.
handlerValidating(event, now) ==
  [statusCode |-> IF event = "malformed" THEN 400 ELSE 200,
   headers |-> [h \in {"Access-Control-Allow-Origin", "Content-Type"} |->
                  IF h = "Content-Type" THEN "application/json" ELSE "*"],
   body |-> JSONStringify([message |-> "Hello from Lambda!",
                           timestamp |-> ToISOString(now)])]

\* export const handler: the fixed response with the current time.
handler(event, now) ==
  [statusCode |-> 200,
   headers |-> [h \in {"Access-Control-Allow-Origin", "Content-Type"} |->
                  IF h = "Content-Type" THEN "application/json" ELSE "*"],
   body |-> JSONStringify([message |-> "Hello from Lambda!",
                           timestamp |-> ToISOString(now)])]

\* Time passes.
Tick(step) ==
  /\ ticks < MaxTicks
  /\ ticks' = ticks + 1
  /\ clock' = [day |-> clock.day + (clock.ms + step) \div MsPerDay,
               ms  |-> (clock.ms + step) % MsPerDay]
  /\ UNCHANGED <<invocations, contexts, running>>
  /\ UNCHANGED <<appVars, cliVars, pipelineVars>>

\* The platform invokes the handler with an event; the handler reads the clock.
Invoke(event) ==
  /\ Len(invocations) < MaxInvocations
  /\ invocations' = Append(invocations,
       [event |-> event, time |-> clock, threw |-> FALSE,
        response |-> handler(event, clock)])
  /\ UNCHANGED <<clock, ticks, contexts, running>>
  /\ UNCHANGED <<appVars, cliVars, pipelineVars>>

NextHandler ==
  \/ \E step \in ClockSteps : Tick(step)
  \/ \E event \in Events : Invoke(event)

\* The inputs of the command line do not matter to the handler.
InitHandler ==
  /\ variant = "cdk-demo.ts"
  /\ envSelector = Undefined
  /\ processEnv = [CDK_DEFAULT_ACCOUNT |-> Undefined, AWS_REGION |-> Undefined]
  /\ cwd = "/repo"
  /\ FreshProcess
  /\ prevSynth = NoSynth
  /\ NoInvocations
  /\ NothingDeployed

SpecHandler == InitHandler /\ [][NextHandler]_vars

(* ----------------------------------------------------------------------- *)
(* Concurrent invocations of the compute handler                           *)
(* ----------------------------------------------------------------------- *)
\* Mutant: the platform runs every invocation in one execution context.
ContextOfShared(i) == 1

\* The execution context the platform gives invocation i: one of its own.
ContextOf(i) == i

\* The platform starts invocation i, passing the event to the handler.
Begin(i, event) ==
  /\ running[i].pc = "idle"
  /\ contexts' = [contexts EXCEPT ![ContextOf(i)].event = event]
  /\ running' = [running EXCEPT ![i].pc = "started", ![i].event = event,
                                ![i].touched = {ContextOf(i)}]
  /\ UNCHANGED <<clock, ticks, invocations>>
  /\ UNCHANGED <<appVars, cliVars, pipelineVars>>

\* The handler of invocation i reads the clock: new Date().
ReadClock(i) ==
  /\ running[i].pc = "started"
  /\ contexts' = [contexts EXCEPT ![ContextOf(i)].now = clock]
  /\ running' = [running EXCEPT ![i].pc = "read", ![i].readAt = clock]
  /\ UNCHANGED <<clock, ticks, invocations>>
  /\ UNCHANGED <<appVars, cliVars, pipelineVars>>

\* The handler of invocation i returns its response, built from its locals.
Return(i) ==
  /\ running[i].pc = "read"
  /\ running' = [running EXCEPT ![i].pc = "returned",
       ![i].response = handler(contexts[ContextOf(i)].event,
                               contexts[ContextOf(i)].now)]
  /\ UNCHANGED <<clock, ticks, invocations, contexts>>
  /\ UNCHANGED <<appVars, cliVars, pipelineVars>>

NextConcurrent ==
  \/ \E step \in ClockSteps : Tick(step)
  \/ \E i \in InvocationIds, event \in Events : Begin(i, event)
  \/ \E i \in InvocationIds : ReadClock(i)
  \/ \E i \in InvocationIds : Return(i)

SpecConcurrent == InitHandler /\ [][NextConcurrent]_vars

(* ----------------------------------------------------------------------- *)
(* Orchestrator commands                                                   *)
(* ----------------------------------------------------------------------- *)
\* What ApiStack declares, for the orchestrator to create.
ApiStackDeclarations ==
  <<HelloFunctionDecl(join("/repo", HandlerEntry)), ServiceApiDecl,
    CorsPreflightDecl,
    MethodDecl(ServiceApiDecl.id, RootMethod, LambdaIntegration(<<"HelloFunction">>)),
    ApiUrlDecl(ServiceApiDecl.id)>>

DeclaredResources == Ids(ApiStackDeclarations)

\* The exit code of cdk deploy.
DeployExitCode(ok) == IF ok THEN 0 ELSE 1

Ran(cmd, env, applied, code) ==
  [cmd |-> cmd, env |-> env, applied |-> applied, exitCode |-> code,
   seq |-> 1 - lastCommand.seq]

\* The developer changes the local declarations.
Commit ==
  /\ localRev < MaxRev
  /\ localRev' = localRev + 1
  /\ UNCHANGED <<deployed, cloudAssembly, diffOutput, lastCommand>>
  /\ UNCHANGED <<appVars, handlerVars, pipelineVars>>

\* Effect of npx cdk synth: generate the template.
SynthEffect ==
  /\ cloudAssembly' = localRev
  /\ lastCommand' = Ran("synth", Undefined, FALSE, 0)
  /\ UNCHANGED <<localRev, deployed, diffOutput>>

\* Effect of npx cdk diff: compare local changes with the deployed stack.
DiffEffect(e) ==
  /\ diffOutput' = IF deployed[e].rev = localRev
                     THEN "no differences" ELSE "differences"
  /\ cloudAssembly' = localRev
  /\ lastCommand' = Ran("diff", e, FALSE, 0)
  /\ UNCHANGED <<localRev, deployed>>

\* Effect of npx cdk deploy --context env=e: apply the template; a failed
\* apply is rolled back by the orchestrator.
DeployEffect(e, ok) ==
  /\ deployed' = IF ok
                   THEN [deployed EXCEPT ![e] =
                           [rev |-> localRev, resources |-> DeclaredResources]]
                   ELSE deployed
  /\ cloudAssembly' = localRev
  /\ lastCommand' = Ran("deploy", e, ok, DeployExitCode(ok))
  /\ UNCHANGED <<localRev, diffOutput>>

\* Mutant: destroy leaves the API behind.
DestroyEffectRetain(e) ==
  /\ deployed' = [deployed EXCEPT ![e] =
                    [rev |-> deployed[e].rev,
                     resources |-> deployed[e].resources \cap {<<"ServiceApi">>}]]
  /\ lastCommand' = Ran("destroy", e, FALSE, 0)
  /\ UNCHANGED <<localRev, cloudAssembly, diffOutput>>

\* Effect of npx cdk destroy: delete all AWS resources of the environment.
DestroyEffect(e) ==
  /\ deployed' = [deployed EXCEPT ![e] = NotDeployed]
  /\ lastCommand' = Ran("destroy", e, FALSE, 0)
  /\ UNCHANGED <<localRev, cloudAssembly, diffOutput>>

cdk_synth ==
  /\ SynthEffect
  /\ UNCHANGED <<appVars, handlerVars, pipelineVars>>

cdk_diff(e) ==
  /\ DiffEffect(e)
  /\ UNCHANGED <<appVars, handlerVars, pipelineVars>>

cdk_deploy(e, ok) ==
  /\ DeployEffect(e, ok)
  /\ UNCHANGED <<appVars, handlerVars, pipelineVars>>

cdk_destroy(e) ==
  /\ DestroyEffect(e)
  /\ UNCHANGED <<appVars, handlerVars, pipelineVars>>

NextCli ==
  \/ Commit
  \/ cdk_synth
  \/ \E e \in EnvNames : cdk_diff(e)
  \/ \E e \in EnvNames, ok \in BOOLEAN : cdk_deploy(e, ok)
  \/ \E e \in EnvNames : cdk_destroy(e)

\* The inputs of the command line are fixed: the commands are what varies.
InitCli == InitHandler

SpecCli == InitCli /\ [][NextCli]_vars

(* ----------------------------------------------------------------------- *)
(* Promotion pipeline                                                      *)
(* ----------------------------------------------------------------------- *)
Last(seq) == seq[Len(seq)]

\* A run of the develop pipeline is over.
DevelopOver ==
  IF develop = <<>> THEN TRUE
  ELSE Last(develop) \in {"build-failed", "deploy", "deploy-failed"}

\* The environments a run of the promotion pipeline has a manual gate for.
Gates(trigger) ==
  CASE trigger = "release-branch" -> {"uat", "stage"}
    [] trigger = "tag-or-main" -> {"prod"}
    [] OTHER -> {}

\* A push to develop starts the develop pipeline on the pushed commit.
PushDevelop ==
  /\ DevelopOver
  /\ localRev < MaxRev
  /\ localRev' = localRev + 1
  /\ develop' = <<"push">>
  /\ UNCHANGED <<deployed, cloudAssembly, diffOutput, lastCommand, release>>
  /\ UNCHANGED <<appVars, handlerVars>>

\* 1. Build & Unit Tests
DevelopBuild(ok) ==
  /\ develop = <<"push">>
  /\ develop' = Append(develop, IF ok THEN "build" ELSE "build-failed")
  /\ UNCHANGED <<cliVars, release>>
  /\ UNCHANGED <<appVars, handlerVars>>

\* 2. CDK Synth + Diff: the synth
DevelopSynth ==
  /\ develop # <<>> /\ Last(develop) = "build"
  /\ SynthEffect
  /\ develop' = Append(develop, "synth")
  /\ UNCHANGED release
  /\ UNCHANGED <<appVars, handlerVars>>

\* 2. CDK Synth + Diff: the diff
DevelopDiff ==
  /\ develop # <<>> /\ Last(develop) = "synth"
  /\ DiffEffect("dev")
  /\ develop' = Append(develop, "diff")
  /\ UNCHANGED release
  /\ UNCHANGED <<appVars, handlerVars>>

\* Mutant: the develop pipeline deploys to uat.
DevelopDeployUat(ok) ==
  /\ develop # <<>> /\ Last(develop) = "diff"
  /\ DeployEffect("uat", ok)
  /\ develop' = Append(develop, IF ok THEN "deploy" ELSE "deploy-failed")
  /\ UNCHANGED release
  /\ UNCHANGED <<appVars, handlerVars>>

\* 3. Automatic Deploy to dev: cdk deploy --context env=dev
DevelopDeploy(ok) ==
  /\ develop # <<>> /\ Last(develop) = "diff"
  /\ DeployEffect("dev", ok)
  /\ develop' = Append(develop, IF ok THEN "deploy" ELSE "deploy-failed")
  /\ UNCHANGED release
  /\ UNCHANGED <<appVars, handlerVars>>

\* A run of the promotion pipeline is at its manual gates, or has failed.
ReleaseOver ==
  IF release.steps = <<>> THEN TRUE
  ELSE Last(release.steps) \in {"build-failed", "diff"}

\* A release branch (or a PR into it), or a tag / merge to main, starts the
\* promotion pipeline.
ReleaseTrigger(trigger) ==
  /\ ReleaseOver
  /\ release' = [trigger |-> trigger, steps |-> <<"trigger">>, approved |-> {}]
  /\ UNCHANGED <<cliVars, develop>>
  /\ UNCHANGED <<appVars, handlerVars>>

\* Build
ReleaseBuild(ok) ==
  /\ release.steps = <<"trigger">>
  /\ release' = [release EXCEPT
                   !.steps = Append(@, IF ok THEN "build" ELSE "build-failed")]
  /\ UNCHANGED <<cliVars, develop>>
  /\ UNCHANGED <<appVars, handlerVars>>

\* Synth/Diff: the synth
ReleaseSynth ==
  /\ release.steps # <<>> /\ Last(release.steps) = "build"
  /\ SynthEffect
  /\ release' = [release EXCEPT !.steps = Append(@, "synth")]
  /\ UNCHANGED develop
  /\ UNCHANGED <<appVars, handlerVars>>

\* Synth/Diff: the diff, against an environment the run has a gate for
ReleaseDiff(e) ==
  /\ release.steps # <<>> /\ Last(release.steps) = "synth"
  /\ e \in Gates(release.trigger)
  /\ DiffEffect(e)
  /\ release' = [release EXCEPT !.steps = Append(@, "diff")]
  /\ UNCHANGED develop
  /\ UNCHANGED <<appVars, handlerVars>>

\* Manual approval to deploy environment e
Approve(e) ==
  /\ release.steps # <<>> /\ Last(release.steps) = "diff"
  /\ e \in Gates(release.trigger) \ release.approved
  /\ release' = [release EXCEPT !.approved = @ \cup {e}]
  /\ UNCHANGED <<cliVars, develop>>
  /\ UNCHANGED <<appVars, handlerVars>>

\* Mutant: the deploy step does not wait for its gate.
ReleaseDeployUngated(e, ok) ==
  /\ release.steps # <<>> /\ Last(release.steps) = "diff"
  /\ e \in Gates(release.trigger)
  /\ DeployEffect(e, ok)
  /\ release' = [release EXCEPT !.approved = @ \ {e}]
  /\ UNCHANGED develop
  /\ UNCHANGED <<appVars, handlerVars>>

\* cdk deploy --context env=e, once e's gate has been approved; the approval
\* is used up by the deploy.
ReleaseDeploy(e, ok) ==
  /\ release.steps # <<>> /\ Last(release.steps) = "diff"
  /\ e \in release.approved
  /\ DeployEffect(e, ok)
  /\ release' = [release EXCEPT !.approved = @ \ {e}]
  /\ UNCHANGED develop
  /\ UNCHANGED <<appVars, handlerVars>>

NextPipeline ==
  \/ PushDevelop
  \/ \E ok \in BOOLEAN : DevelopBuild(ok)
  \/ DevelopSynth
  \/ DevelopDiff
  \/ \E ok \in BOOLEAN : DevelopDeploy(ok)
  \/ \E trigger \in {"release-branch", "tag-or-main"} : ReleaseTrigger(trigger)
  \/ \E ok \in BOOLEAN : ReleaseBuild(ok)
  \/ ReleaseSynth
  \/ \E e \in EnvNames : ReleaseDiff(e)
  \/ \E e \in EnvNames : Approve(e)
  \/ \E e \in EnvNames, ok \in BOOLEAN : ReleaseDeploy(e, ok)

InitPipeline == InitHandler

SpecPipeline == InitPipeline /\ [][NextPipeline]_vars

\* Runs of the command line, one after the other.
Next ==
  \/ NewApp
  \/ ConsoleLog
  \/ StackSuper
  \/ NewHelloFunction
  \/ NewRestApi
  \/ NewLambdaIntegration
  \/ AddMethod
  \/ NewCfnOutput
  \/ CdkSynth
  \/ Restart

Spec == Init /\ [][Next]_vars

\* One run of the command line, and the front door its template declares.
NextFrontDoor ==
  \/ NewApp
  \/ ConsoleLog
  \/ StackSuper
  \/ NewHelloFunction
  \/ NewRestApi
  \/ NewLambdaIntegration
  \/ AddMethod
  \/ NewCfnOutput
  \/ CdkSynth
  \/ \E m \in HttpMethods : Request(m)

SpecFrontDoor == Init /\ [][NextFrontDoor]_vars

(* ----------------------------------------------------------------------- *)
(* Claims about the entry point and the stack                              *)
(* ----------------------------------------------------------------------- *)
Ended == pc \in {"done", "synthesized", "failed"}

Constructed == pc \in {"done", "synthesized"}

\* The deployable groupings under the app: stages, and stacks directly under it.
Groupings == stages \o stacks

C2_GroupingMatchesConfig ==
  (envSelector \in EnvNames /\ Constructed) =>
    /\ Len(Groupings) = 1
    /\ Groupings[1].env = EnvConfigs[envSelector]

\* The position of the one construct of seq that satisfies P (0 when none).
IndexOf(seq, P(_)) ==
  IF \E i \in 1..Len(seq) : P(seq[i])
    THEN CHOOSE i \in 1..Len(seq) : P(seq[i])
    ELSE 0

IsGetBinding(r) ==
  /\ r.type = "Method"
  /\ r.props.httpMethod = "GET"
  /\ r.props.resource = "/"

\* C6: two syntheses of ApiStack with the same id and the same account/region
\* configuration yield identical templates.
C6_SynthesisIdempotent ==
  (/\ template.synthesized
   /\ prevSynth.synthesized
   /\ stacks[1].id = prevSynth.id
   /\ stacks[1].env = prevSynth.env) => template = prevSynth.template

\* Two syntheses of the same configuration, made by the two entry-point
\* variants under different context values.
C6_Witness ==
  /\ template.synthesized
  /\ prevSynth.synthesized
  /\ stacks[1].id = prevSynth.id
  /\ stacks[1].env = prevSynth.env
  /\ variant # prevSynth.variant
  /\ envSelector = "prod"

\* C7: a constructed ApiStack declares, in this order, exactly one compute
\* function (memory 256, runtime nodejs20.x), exactly one HTTP API accepting
\* all origins and methods, exactly one binding of GET on the root route to
\* that function, and exactly one output whose value is that API's base URL;
\* the declarations are the same for every account/region.
C7_DeclarationsInOrder ==
  Constructed =>
    LET fns  == OfType(resources, "Function")
        apis == OfType(resources, "RestApi")
        gets == SelectSeq(resources, IsGetBinding)
        outs == OfType(resources, "Output")
    IN  /\ Len(fns) = 1
        /\ fns[1].props.memorySize = 256
        /\ fns[1].props.runtime = "nodejs20.x"
        /\ Len(apis) = 1
        /\ apis[1].props.allowOrigins = "ALL_ORIGINS"
        /\ apis[1].props.allowMethods = "ALL_METHODS"
        /\ Len(gets) = 1
        /\ gets[1].props.integration = [type |-> "AWS_PROXY", handler |-> fns[1].id]
        /\ apis[1].id \in gets[1].refs
        /\ Len(outs) = 1
        /\ outs[1].props.value = [urlOf |-> apis[1].id]
        /\ IndexOf(resources, LAMBDA r : r.type = "Function")
             < IndexOf(resources, LAMBDA r : r.type = "RestApi")
        /\ IndexOf(resources, LAMBDA r : r.type = "RestApi")
             < IndexOf(resources, IsGetBinding)
        /\ IndexOf(resources, IsGetBinding)
             < IndexOf(resources, LAMBDA r : r.type = "Output")
        /\ prevSynth.synthesized => resources = prevSynth.declared
        /\ resources = ApiStackDeclarations

\* A constructed stack, and an earlier one constructed for another target.
C7_Witness ==
  /\ pc = "done"
  /\ prevSynth.synthesized
  /\ prevSynth.env.account # stacks[1].env.account
  /\ prevSynth.env.region # stacks[1].env.region

(* ----------------------------------------------------------------------- *)
(* Claims about the front door                                             *)
(* ----------------------------------------------------------------------- *)
RootMethods(t) == {r.props.httpMethod : r \in MethodsOn(t, "/")}

FunctionMethods(t) ==
  {r.props.httpMethod : r \in {x \in MethodsOn(t, "/") :
                                  x.props.integration.type = "AWS_PROXY"}}

GetRequests == {i \in 1..Len(requests) : requests[i].method = "GET"}

\* C5 as stated: GET is the only method bound to the root resource, and a
\* request with any other method is rejected.
C5_OnlyGetOnRoot ==
  template.synthesized =>
    /\ RootMethods(template) = {"GET"}
    /\ \A i \in 1..Len(requests) :
         requests[i].method # "GET" => requests[i].outcome = "rejected"

\* C5 as amended: GET is the only method of the root resource bound to the
\* compute function; the one other method of the root is the CORS preflight
\* OPTIONS, which the front door answers itself; a request with a method other
\* than GET never invokes the function, and one with a method other than GET
\* and OPTIONS is rejected.
C5_OnlyGetInvokes ==
  template.synthesized =>
    /\ FunctionMethods(template) = {"GET"}
    /\ RootMethods(template) = {"GET", "OPTIONS"}
    /\ \A i \in 1..Len(requests) :
         /\ requests[i].method = "GET" => requests[i].outcome = "invoked"
         /\ requests[i].method = "OPTIONS" => requests[i].outcome = "mock"
         /\ requests[i].method \notin {"GET", "OPTIONS"}
              => requests[i].outcome = "rejected"
    /\ fnInvocations = Cardinality(GetRequests)

\* A preflight and a POST have been answered, and the function has not run.
C5_Witness ==
  /\ Len(requests) = 2
  /\ requests[1].method = "OPTIONS"
  /\ requests[2].method = "POST"
  /\ fnInvocations = 0

(* ----------------------------------------------------------------------- *)
(* Claims about the compute handler                                        *)
(* ----------------------------------------------------------------------- *)
IsDigit(c) == \E i \in 1..10 : DigitChars[i] = c

DigitValue(c) == (CHOOSE i \in 1..10 : DigitChars[i] = c) - 1

\* The number written by the characters from..to of s.
Number(s, from, to) ==
  LET RECURSIVE Val(_)
      Val(i) == IF i < from THEN 0 ELSE 10 * Val(i - 1) + DigitValue(s[i])
  IN  Val(to)

DaysInMonth(y, m) ==
  IF m = 2
    THEN IF (y % 4 = 0 /\ y % 100 # 0) \/ y % 400 = 0 THEN 29 ELSE 28
    ELSE IF m \in {4, 6, 9, 11} THEN 30 ELSE 31

\* s is a date-time of the ISO-8601 form YYYY-MM-DDTHH:mm:ss.sssZ.
IsISO8601(s) ==
  /\ Len(s) = 24
  /\ s[5] = "-" /\ s[8] = "-" /\ s[11] = "T"
  /\ s[14] = ":" /\ s[17] = ":" /\ s[20] = "." /\ s[24] = "Z"
  /\ \A i \in (1..23) \ {5, 8, 11, 14, 17, 20} : IsDigit(s[i])
  /\ Number(s, 6, 7) \in 1..12
  /\ Number(s, 9, 10) \in 1..DaysInMonth(Number(s, 1, 4), Number(s, 6, 7))
  /\ Number(s, 12, 13) < 24
  /\ Number(s, 15, 16) < 60
  /\ Number(s, 18, 19) < 60

\* The day number of a civil date.
DaysFromCivil(y0, m, d) ==
  LET y   == IF m <= 2 THEN y0 - 1 ELSE y0
      era == y \div 400
      yoe == y - era * 400
      doy == (153 * (IF m > 2 THEN m - 3 ELSE m + 9) + 2) \div 5 + d - 1
      doe == yoe * 365 + yoe \div 4 - yoe \div 100 + doy
  IN  era * 146097 + doe - 719468

\* The instant an ISO-8601 date-time names.
ParseISO(s) ==
  [day |-> DaysFromCivil(Number(s, 1, 4), Number(s, 6, 7), Number(s, 9, 10)),
   ms  |-> ((Number(s, 12, 13) * 60 + Number(s, 15, 16)) * 60
              + Number(s, 18, 19)) * 1000 + Number(s, 21, 23)]

\* The text is the JSON of an object with a message and a timestamp.
IsJSONBody(b) ==
  /\ Len(b) >= 4
  /\ b[1] = "{\"message\":\""
  /\ b[3] = "\",\"timestamp\":\""
  /\ b[Len(b)] = "\"}"

JSONParse(b) == [message |-> b[2], timestamp |-> SubSeq(b, 4, Len(b) - 1)]

\* C3: for every event, the handler returns, without throwing, status 200,
\* the headers Access-Control-Allow-Origin: * and Content-Type:
\* application/json, and a JSON body whose message is "Hello from Lambda!" and
\* whose timestamp is an ISO-8601 date-time (that of the invocation).
C3_HandlerAlwaysOk ==
  \A i \in 1..Len(invocations) :
    LET r == invocations[i].response IN
      /\ ~invocations[i].threw
      /\ r.statusCode = 200
      /\ r.headers["Access-Control-Allow-Origin"] = "*"
      /\ r.headers["Content-Type"] = "application/json"
      /\ IsJSONBody(r.body)
      /\ JSONParse(r.body).message = "Hello from Lambda!"
      /\ JSONParse(r.body).message # ""
      /\ IsISO8601(JSONParse(r.body).timestamp)
      /\ ParseISO(JSONParse(r.body).timestamp) = invocations[i].time

\* A malformed event late on 2025-11-11 and an empty one on 2025-11-12.
C3_Witness ==
  /\ Len(invocations) = 2
  /\ invocations[1].event = "malformed"
  /\ invocations[1].time.day = 20403
  /\ invocations[2].event = "empty"
  /\ invocations[2].time.day = 20404

\* C4: any two invocations return the same message; made at different clock
\* times they return different timestamps; made at the same clock time they
\* return the same response, whatever their events.
C4_ClockOnly ==
  \A i, j \in 1..Len(invocations) :
    LET a == invocations[i]
        b == invocations[j]
    IN  /\ JSONParse(a.response.body).message = JSONParse(b.response.body).message
        /\ a.time # b.time =>
             JSONParse(a.response.body).timestamp # JSONParse(b.response.body).timestamp
        /\ a.time = b.time => a.response = b.response

\* Two invocations one millisecond apart, with different events.
C4_Witness ==
  /\ Len(invocations) = 2
  /\ invocations[1].event # invocations[2].event
  /\ invocations[1].time.day = invocations[2].time.day
  /\ invocations[2].time.ms = invocations[1].time.ms + 1

\* Two invocations at the same clock time with different events.
C4_WitnessSameTime ==
  /\ Len(invocations) = 2
  /\ invocations[1].event # invocations[2].event
  /\ invocations[1].time = invocations[2].time

(* ----------------------------------------------------------------------- *)
(* Claims about the promotion pipeline and the orchestrator commands       *)
(* ----------------------------------------------------------------------- *)
IsPrefix(a, b) == Len(a) <= Len(b) /\ a = SubSeq(b, 1, Len(a))

\* An orchestrator command runs in this step.
CommandRuns == lastCommand' # lastCommand

Applied(rev) == [rev |-> rev, resources |-> DeclaredResources]

\* C8: a push to develop runs build and tests, then synth and diff, then,
\* with no approval, a deploy to dev; no step of that run changes what is
\* deployed to uat, stage or prod.
C8_DevelopDeploysDevOnly ==
  /\ [](\/ IsPrefix(develop, <<"push", "build", "synth", "diff", "deploy">>)
        \/ develop = <<"push", "build-failed">>
        \/ develop = <<"push", "build", "synth", "diff", "deploy-failed">>)
  /\ [][develop' # develop =>
          /\ \A e \in EnvNames \ {"dev"} : deployed'[e] = deployed[e]
          /\ (develop' # <<>> /\ Last(develop') = "deploy")
               => deployed'["dev"] = Applied(localRev)
          /\ deployed'["dev"] # deployed["dev"]
               => (develop' # <<>> /\ Last(develop') = "deploy")]_vars

\* The develop pipeline has deployed the pushed commit to dev, while uat
\* still runs the commit promoted before the push.
C8_Witness ==
  /\ develop = <<"push", "build", "synth", "diff", "deploy">>
  /\ deployed["dev"].rev = 2
  /\ deployed["uat"].rev = 1
  /\ release.approved = {}

\* C9: in the promotion pipeline a deploy to uat, stage or prod, successful or
\* not, runs only after Build, Synth and Diff of that run and a manual
\* approval for that environment.
C9_DeployOnlyAfterApproval ==
  [][\A e \in EnvNames \ {"dev"} :
       ((CommandRuns /\ lastCommand'.cmd = "deploy" /\ lastCommand'.env = e)
          \/ deployed'[e] # deployed[e])
       => /\ IsPrefix(<<"trigger", "build", "synth", "diff">>, release.steps)
          /\ e \in release.approved]_vars

\* A tag or merge to main has been approved and deployed to prod.
C9_Witness ==
  /\ release.trigger = "tag-or-main"
  /\ release.steps = <<"trigger", "build", "synth", "diff">>
  /\ lastCommand.cmd = "deploy"
  /\ lastCommand.env = "prod"
  /\ lastCommand.applied
  /\ deployed["prod"] = Applied(localRev)

\* C10: synth and diff leave the deployed state of every environment
\* unchanged; only deploy and destroy change it, and only for their
\* environment; deploy ends with exit code 0 exactly when the apply succeeded,
\* and then the environment runs the local declarations; destroy leaves the
\* environment with no resources.
C10_CommandEffects ==
  [][/\ deployed' # deployed =>
          (CommandRuns /\ lastCommand'.cmd \in {"deploy", "destroy"})
     /\ (CommandRuns /\ lastCommand'.cmd \in {"synth", "diff"}) =>
          deployed' = deployed
     /\ (CommandRuns /\ lastCommand'.cmd \in {"deploy", "destroy"}) =>
          \A e \in EnvNames \ {lastCommand'.env} : deployed'[e] = deployed[e]
     /\ (CommandRuns /\ lastCommand'.cmd = "deploy") =>
          /\ (lastCommand'.exitCode = 0) <=> lastCommand'.applied
          /\ lastCommand'.applied => deployed'[lastCommand'.env] = Applied(localRev)
     /\ (CommandRuns /\ lastCommand'.cmd = "destroy") =>
          /\ deployed'[lastCommand'.env].resources = {}
          /\ deployed'[lastCommand'.env] = NotDeployed]_vars

\* dev has been destroyed after a deploy, while prod stays deployed.
C10_Witness ==
  /\ lastCommand.cmd = "destroy"
  /\ lastCommand.env = "dev"
  /\ deployed["dev"] = NotDeployed
  /\ deployed["prod"] = Applied(2)
  /\ cloudAssembly = 2

(* ----------------------------------------------------------------------- *)
(* Claims about a run of the entry point                                   *)
(* ----------------------------------------------------------------------- *)
StageIds == {stages[i].id : i \in 1..Len(stages)}

\* C11: a run goes: environment resolved, stage instantiated, stacks
\* instantiated inside that stage, template synthesized; no stack exists
\* outside a stage, and no template before its stack.
C11_StacksInsideStage ==
  /\ stacks # <<>> => stages # <<>>
  /\ \A i \in 1..Len(stacks) : stacks[i].scope \in StageIds
  /\ template.synthesized => stacks # <<>>

\* C12: a successful run of the entry point constructs exactly one deployable
\* grouping, from the configuration it resolved, and does nothing else: the
\* app is created once, nothing is written out and no error is swallowed.
C12_ConstructionOnly ==
  Constructed =>
    /\ appCreated
    /\ Len(Groupings) = 1
    /\ Groupings[1].env = StackEnv(variant, processEnv)
    /\ error = NoError
    /\ stdout = <<>>

(* ----------------------------------------------------------------------- *)
(* Claims about the declaration graph                                      *)
(* ----------------------------------------------------------------------- *)
\* The declarations that declaration r references.
RefsOf(seq, id) ==
  UNION {seq[i].refs : i \in {j \in 1..Len(seq) : seq[j].id = id}}

\* The declarations reachable from the set S in at most n references.
RECURSIVE ReachableFrom(_, _, _)
ReachableFrom(seq, S, n) ==
  IF n = 0 THEN S
  ELSE ReachableFrom(seq, S \cup UNION {RefsOf(seq, id) : id \in S}, n - 1)

\* No declaration reaches itself by following references.
Acyclic(seq) ==
  \A i \in 1..Len(seq) :
    seq[i].id \notin ReachableFrom(seq, seq[i].refs, Len(seq))

\* C14: at every step of the constructor, every declared resource (and the
\* integration) references only resources already declared in the stack, and
\* the declaration graph has no cycle.
C14_AcyclicDeclarations ==
  /\ \A i \in 1..Len(resources) : resources[i].refs \subseteq Ids(resources)
  /\ helloIntegration.handler \in Ids(resources) \cup {NoRef}
  /\ Acyclic(resources)

\* The whole stack is declared: the GET method references the API and the
\* function, the output references the API.
C14_Witness ==
  /\ pc = "done"
  /\ Len(resources) = 5
  /\ \E i \in 1..Len(resources) :
       resources[i].refs = {<<"ServiceApi">>, <<"HelloFunction">>}
  /\ \E i \in 1..Len(resources) :
       resources[i].type = "Output" /\ resources[i].refs = {<<"ServiceApi">>}

(* ----------------------------------------------------------------------- *)
(* Claims about concurrent invocations                                     *)
(* ----------------------------------------------------------------------- *)
\* Clock value a is earlier than clock value b.
Earlier(a, b) == a.day < b.day \/ (a.day = b.day /\ a.ms < b.ms)

\* C15: however concurrent invocations interleave, no two of them touch the
\* same execution context, and every returned response is the one the handler
\* gives, run alone, for the invocation's event at the time it read the clock.
C15_InvocationsIsolated ==
  /\ \A i, j \in InvocationIds :
       i # j => running[i].touched \cap running[j].touched = {}
  /\ \A i \in InvocationIds :
       running[i].pc = "returned" =>
         running[i].response = handler(running[i].event, running[i].readAt)

\* Two invocations overlapped: one read the clock and has not returned yet,
\* the other read the clock later, for another event, and has returned.
C15_Witness ==
  \E i, j \in InvocationIds :
    /\ running[i].pc = "read"
    /\ running[j].pc = "returned"
    /\ running[i].event # running[j].event
    /\ Earlier(running[i].readAt, running[j].readAt)
    /\ running[j].response = handler(running[j].event, running[j].readAt)

(* ----------------------------------------------------------------------- *)
(* Claims about the two entry-point variants                               *)
(* ----------------------------------------------------------------------- *)
\* A run of each variant has been synthesized: this one and an earlier one.
BothVariantsRan ==
  /\ template.synthesized
  /\ prevSynth.synthesized
  /\ variant # prevSynth.variant

\* Every constructed run has exactly one stack, 'ApiStack', directly under the
\* app, targeting what its variant says, whatever the environment selector;
\* runs of the two variants declare the same resources under the same stack,
\* and produce the same template when their targets are the same.
SameStackInBothVariants ==
  /\ Constructed =>
       /\ stages = <<>>
       /\ Len(stacks) = 1
       /\ stacks[1].id = "ApiStack"
       /\ stacks[1].scope = "App"
       /\ stacks[1].env = StackEnv(variant, processEnv)
  /\ BothVariantsRan =>
       /\ stacks[1].id = prevSynth.id
       /\ stacks[1].scope = prevSynth.scope
       /\ resources = prevSynth.declared
       /\ (stacks[1].env = prevSynth.env => template = prevSynth.template)

\* C16: the two entry-point variants are equivalent up to the deployment
\* target: one stack 'ApiStack' directly under the app with the same declared
\* resources, independent of the environment selector, and no difference
\* between their runs other than the account/region pair.
C16_VariantsEquivalent ==
  /\ SameStackInBothVariants
  /\ BothVariantsRan => stdout = prevSynth.stdout

====
